---- MODULE Spec2Model ----
(***************************************************************************)
(* go-hello-devops: the HTTP server of main.go as a state machine.         *)
(*                                                                         *)
(* Strings that the code takes apart or puts together (URL paths, the port *)
(* string, response bodies, formatted times) are sequences of tokens, so   *)
(* that matching, parsing, truncation and formatting are computed.         *)
(***************************************************************************)
EXTENDS Integers, Sequences, FiniteSets, TLC

\* ------------------------------------------------------------------ bounds

\* Wall-clock readings are 1..MaxWall ticks (0 is the zero time.Time).
MaxWall == 3
\* Monotonic-clock readings are 0..MaxMono ticks.
MaxMono == 2
\* Ticks of the wall clock per second: the sub-second part RFC 3339 drops.
TicksPerSec == 2
\* Request slots: how many requests the server can have in hand at once.
MaxInFlight == 2
\* The strings the test helper is tried on have up to MaxLen characters.
MaxLen == 3

\* ------------------------------------------------------- program constants

StatusOK == 200
ReadTimeoutSec == 15
WriteTimeoutSec == 15
IdleTimeoutSec == 60

\* ------------------------------------------------------------- sequences

IsPrefix(s, t) == Len(s) <= Len(t) /\ SubSeq(t, 1, Len(s)) = s

Take(s, n) == SubSeq(s, 1, IF n < Len(s) THEN n ELSE Len(s))

HasToken(s, tok) == \E k \in 1..Len(s) : s[k] = tok

\* -------------------------------------------------------------- numbers

DigitChars == <<"0", "1", "2", "3", "4", "5", "6", "7", "8", "9">>

IsDigit(c) == \E d \in 1..10 : DigitChars[d] = c

DigitValue(c) == (CHOOSE d \in 1..10 : DigitChars[d] = c) - 1

\* strconv-style decimal rendering of a natural number.
RECURSIVE Itoa(_)
Itoa(n) == IF n < 10 THEN <<DigitChars[n + 1]>>
           ELSE Itoa(n \div 10) \o <<DigitChars[(n % 10) + 1]>>

\* Decimal value of a sequence of digit tokens.
RECURSIVE Atoi(_)
Atoi(s) == IF s = <<>> THEN 0
           ELSE 10 * Atoi(SubSeq(s, 1, Len(s) - 1)) + DigitValue(s[Len(s)])

AllDigits(s) == s # <<>> /\ \A k \in 1..Len(s) : IsDigit(s[k])

\* ----------------------------------------------------------------- time

\* A clock value rendered as a bare count of seconds.
FormatUnixSeconds(t) == Itoa(t \div TicksPerSec)

\* time.Time.Format(time.RFC3339): whole seconds, the fraction is dropped.
FormatRFC3339(t) == <<"T">> \o Itoa(t \div TicksPerSec) \o <<"Z">>

\* time.Time.MarshalJSON uses RFC3339Nano: the fraction is kept when non-zero.
FormatRFC3339Nano(t) ==
    <<"T">> \o Itoa(t \div TicksPerSec)
            \o (IF t % TicksPerSec = 0 THEN <<>> ELSE <<".">> \o Itoa(t % TicksPerSec))
            \o <<"Z">>

\* time.Parse(time.RFC3339, s) as json.Unmarshal applies it to a time.Time:
\* the instant in ticks, or -1 when s is not a timestamp.
ParseRFC3339(s) ==
    IF Len(s) < 3 \/ s[1] # "T" \/ s[Len(s)] # "Z" THEN -1
    ELSE LET mid == SubSeq(s, 2, Len(s) - 1)
             dot == IF HasToken(mid, ".")
                    THEN CHOOSE k \in 1..Len(mid) : mid[k] = "."
                    ELSE 0
             secs == IF dot = 0 THEN mid ELSE SubSeq(mid, 1, dot - 1)
             frac == IF dot = 0 THEN <<>> ELSE SubSeq(mid, dot + 1, Len(mid))
         IN IF ~AllDigits(secs) \/ (dot # 0 /\ ~AllDigits(frac)) THEN -1
            ELSE Atoi(secs) * TicksPerSec + Atoi(frac)

\* ----------------------------------------------------------------- JSON

Quote == "\""

\* encoding/json of a string: the content between two quotes.
JSONString(content) == <<Quote>> \o content \o <<Quote>>

RECURSIVE JSONMembers(_)
JSONMembers(fields) ==
    IF fields = <<>> THEN <<>>
    ELSE JSONString(<<fields[1].k>>) \o <<":">> \o JSONString(fields[1].v)
         \o (IF Len(fields) = 1 THEN <<>> ELSE <<",">> \o JSONMembers(Tail(fields)))

\* json.Encoder.Encode of a struct of string-valued fields, in declaration
\* order, followed by the newline Encode adds.
JSONEncode(fields) == <<"{">> \o JSONMembers(fields) \o <<"}", "\n">>

NoParse == [ok |-> FALSE, fields |-> <<>>]

\* A JSON string starting at toks[pos]: its content and the position after
\* its closing quote.
ParseString(toks, pos) ==
    IF pos > Len(toks) \/ toks[pos] # Quote
       \/ ~\E k \in (pos + 1)..Len(toks) : toks[k] = Quote
    THEN [ok |-> FALSE, val |-> <<>>, next |-> 0]
    ELSE LET close == CHOOSE k \in (pos + 1)..Len(toks) :
                          /\ toks[k] = Quote
                          /\ \A j \in (pos + 1)..(k - 1) : toks[j] # Quote
         IN [ok |-> TRUE, val |-> SubSeq(toks, pos + 1, close - 1), next |-> close + 1]

RECURSIVE ParseMembers(_, _, _)
ParseMembers(toks, pos, acc) ==
    LET key == ParseString(toks, pos)
    IN IF ~key.ok \/ key.next > Len(toks) \/ toks[key.next] # ":" \/ Len(key.val) # 1
       THEN NoParse
       ELSE LET val == ParseString(toks, key.next + 1)
                acc2 == Append(acc, [k |-> key.val[1], v |-> val.val])
            IN IF ~val.ok \/ val.next > Len(toks) THEN NoParse
               ELSE IF toks[val.next] = "," THEN ParseMembers(toks, val.next + 1, acc2)
               ELSE IF /\ toks[val.next] = "}"
                       /\ \A j \in (val.next + 1)..Len(toks) : toks[j] = "\n"
                    THEN [ok |-> TRUE, fields |-> acc2]
                    ELSE NoParse

\* json.Unmarshal of a body: the members of the object, or a failure on
\* anything that is not one complete object.
JSONDecode(toks) ==
    IF Len(toks) < 2 \/ toks[1] # "{" THEN NoParse ELSE ParseMembers(toks, 2, <<>>)

FieldNames(fields) == [k \in 1..Len(fields) |-> fields[k].k]

\* The value of the member named name, <<>> when there is none.
FieldValue(fields, name) ==
    IF \E k \in 1..Len(fields) : fields[k].k = name
    THEN fields[CHOOSE k \in 1..Len(fields) : fields[k].k = name].v
    ELSE <<>>

\* ------------------------------------------------------- response types

\* HealthResponse with its json tags.
HealthResponse(status, timestamp, version) ==
    <<[k |-> "status", v |-> <<status>>],
      [k |-> "timestamp", v |-> FormatRFC3339Nano(timestamp)],
      [k |-> "version", v |-> <<version>>]>>

\* MessageResponse with its json tags; Time is already a string.
MessageResponse(message, time) ==
    <<[k |-> "message", v |-> <<message>>],
      [k |-> "time", v |-> time]>>

MessageText == "This is your first API endpoint! Try modifying this message."

\* The page handleRoot sends, cut into tokens at the places the tests look for.
Html ==
    <<"<!DOCTYPE html><html><head><title>", "Hello DevOps", "!</title><style>",
      "</style></head><body><div class=container><h1>", "Hello DevOps", "!</h1>",
      "<p>Welcome to your first Go web application running in Coderbox.</p>",
      "<p>Try these endpoints:</p><p>GET ", "/health", " - Check if the service is running</p>",
      "<p>GET ", "/api/message", " - Get a JSON response</p>", "</div></body></html>">>

\* ------------------------------------------------------- response sink

\* An http.ResponseWriter: the header map (name, value pairs), the committed status (0: none yet)
\* with the headers sent along with it, the body accepted so far, and the
\* calls made on it in order. limit is how many body tokens the connection
\* takes before writes fail (-1: it never fails, as httptest's recorder), and
\* short whether a write on it came back with an error.
NewSink(limit) ==
    [limit |-> limit, header |-> {}, status |-> 0, sent |-> {},
     body |-> <<>>, ops |-> <<>>, short |-> FALSE]

HeaderGet(h, name) ==
    IF \E p \in h : p[1] = name THEN (CHOOSE p \in h : p[1] = name)[2] ELSE <<>>

HeaderSet(w, name, value) ==
    [w EXCEPT !.header = {p \in @ : p[1] # name} \cup {<<name, value>>},
              !.ops = Append(@, "Header.Set")]

\* The first WriteHeader commits status and headers; later ones are ignored.
WriteHeader(w, code) ==
    IF w.status # 0 THEN [w EXCEPT !.ops = Append(@, "WriteHeader")]
    ELSE [w EXCEPT !.status = code, !.sent = w.header,
                   !.ops = Append(@, "WriteHeader")]

\* Write commits 200 when no status was written, then appends what the
\* connection still takes; err reports a short write.
Write(w, data) ==
    LET w1 == IF w.status = 0 THEN [w EXCEPT !.status = StatusOK, !.sent = w.header]
              ELSE w
        room == IF w.limit < 0 THEN Len(data)
                ELSE IF w.limit - Len(w.body) < 0 THEN 0
                ELSE w.limit - Len(w.body)
    IN [w |-> [w1 EXCEPT !.body = @ \o Take(data, room), !.ops = Append(@, "Write"),
                         !.short = @ \/ room < Len(data)],
        err |-> room < Len(data)]

\* ------------------------------------------------------------ handlers

LogLine(by, fmt, args) == [by |-> by, fmt |-> fmt, args |-> args]

\* handleRoot with the status written before the header is set.
HandleRootHeaderLate(w, r, now) ==
    LET w1 == WriteHeader(w, StatusOK)
        w2 == HeaderSet(w1, "Content-Type", <<"text/html; charset=utf-8">>)
        p == Write(w2, Html)
    IN [w |-> p.w,
        log |-> <<LogLine("handleRoot", "Served request to %s from %s",
                          <<r.path, <<r.remote>>>>)>>,
        ev |-> p.w.ops \o <<"log.Printf">>]

\* handleRoot logging its line before it writes anything.
HandleRootLogsFirst(w, r, now) ==
    LET w1 == HeaderSet(w, "Content-Type", <<"text/html; charset=utf-8">>)
        w2 == WriteHeader(w1, StatusOK)
        p == Write(w2, Html)
    IN [w |-> p.w,
        log |-> <<LogLine("handleRoot", "Served request to %s from %s",
                          <<r.path, <<r.remote>>>>)>>,
        ev |-> <<"log.Printf">> \o p.w.ops]

\* handleRoot: the result of Fprint is dropped, then one line is logged.
HandleRoot(w, r, now) ==
    LET w1 == HeaderSet(w, "Content-Type", <<"text/html; charset=utf-8">>)
        w2 == WriteHeader(w1, StatusOK)
        p == Write(w2, Html)
    IN [w |-> p.w,
        log |-> <<LogLine("handleRoot", "Served request to %s from %s",
                          <<r.path, <<r.remote>>>>)>>,
        ev |-> p.w.ops \o <<"log.Printf">>]

\* handleHealth answering an encoding failure with http.Error.
HandleHealthErrorStatus(w, r, now) ==
    LET response == HealthResponse("healthy", now.wall, "1.0.0")
        w1 == HeaderSet(w, "Content-Type", <<"application/json">>)
        w2 == WriteHeader(w1, StatusOK)
        p == Write(w2, JSONEncode(response))
    IN IF p.err
       THEN LET w3 == WriteHeader(HeaderSet(p.w, "Content-Type",
                                            <<"text/plain; charset=utf-8">>), 500)
            IN [w |-> w3,
                log |-> <<LogLine("handleHealth", "Error encoding health response: %v",
                                  <<<<"short write">>>>)>>,
                ev |-> w3.ops \o <<"log.Printf">>]
       ELSE [w |-> p.w, log |-> <<>>, ev |-> p.w.ops]

\* handleHealth reporting a status that depends on the request.
HandleHealthByMethod(w, r, now) ==
    LET response == HealthResponse(IF r.method = "GET" THEN "healthy" ELSE "degraded",
                                   now.wall, "1.0.0")
        w1 == HeaderSet(w, "Content-Type", <<"application/json">>)
        w2 == WriteHeader(w1, StatusOK)
        p == Write(w2, JSONEncode(response))
    IN [w |-> p.w,
        log |-> IF p.err
                THEN <<LogLine("handleHealth", "Error encoding health response: %v",
                               <<<<"short write">>>>)>>
                ELSE <<>>,
        ev |-> p.w.ops \o (IF p.err THEN <<"log.Printf">> ELSE <<>>)]

\* handleHealth encoding the body before it sets the header and the status.
HandleHealthWriteFirst(w, r, now) ==
    LET response == HealthResponse("healthy", now.wall, "1.0.0")
        p == Write(w, JSONEncode(response))
        w1 == HeaderSet(p.w, "Content-Type", <<"application/json">>)
        w2 == WriteHeader(w1, StatusOK)
    IN [w |-> w2,
        log |-> IF p.err
                THEN <<LogLine("handleHealth", "Error encoding health response: %v",
                               <<<<"short write">>>>)>>
                ELSE <<>>,
        ev |-> w2.ops \o (IF p.err THEN <<"log.Printf">> ELSE <<>>)]

\* handleHealth with the Timestamp field left at its zero value.
HandleHealthNoTimestamp(w, r, now) ==
    LET response == HealthResponse("healthy", 0, "1.0.0")
        w1 == HeaderSet(w, "Content-Type", <<"application/json">>)
        w2 == WriteHeader(w1, StatusOK)
        p == Write(w2, JSONEncode(response))
    IN [w |-> p.w,
        log |-> IF p.err
                THEN <<LogLine("handleHealth", "Error encoding health response: %v",
                               <<<<"short write">>>>)>>
                ELSE <<>>,
        ev |-> p.w.ops \o (IF p.err THEN <<"log.Printf">> ELSE <<>>)]

HandleHealth(w, r, now) ==
    LET response == HealthResponse("healthy", now.wall, "1.0.0")
        w1 == HeaderSet(w, "Content-Type", <<"application/json">>)
        w2 == WriteHeader(w1, StatusOK)
        p == Write(w2, JSONEncode(response))
    IN [w |-> p.w,
        log |-> IF p.err
                THEN <<LogLine("handleHealth", "Error encoding health response: %v",
                               <<<<"short write">>>>)>>
                ELSE <<>>,
        ev |-> p.w.ops \o (IF p.err THEN <<"log.Printf">> ELSE <<>>)]

\* handleMessage with the Time field left empty.
HandleMessageNoTime(w, r, now) ==
    LET response == MessageResponse(MessageText, <<>>)
        w1 == HeaderSet(w, "Content-Type", <<"application/json">>)
        w2 == WriteHeader(w1, StatusOK)
        p == Write(w2, JSONEncode(response))
    IN [w |-> p.w,
        log |-> IF p.err
                THEN <<LogLine("handleMessage", "Error encoding message response: %v",
                               <<<<"short write">>>>)>>
                ELSE <<>>,
        ev |-> p.w.ops \o (IF p.err THEN <<"log.Printf">> ELSE <<>>)]

\* handleMessage turning away a request that carries a body.
HandleMessageNoBody(w, r, now) ==
    LET response == MessageResponse(MessageText, FormatRFC3339(now.wall))
        w1 == HeaderSet(w, "Content-Type", <<"application/json">>)
        w2 == WriteHeader(w1, IF r.body = <<>> THEN StatusOK ELSE 400)
        p == Write(w2, JSONEncode(response))
    IN [w |-> p.w,
        log |-> IF p.err
                THEN <<LogLine("handleMessage", "Error encoding message response: %v",
                               <<<<"short write">>>>)>>
                ELSE <<>>,
        ev |-> p.w.ops \o (IF p.err THEN <<"log.Printf">> ELSE <<>>)]

\* handleMessage logging every response it sends.
HandleMessageChatty(w, r, now) ==
    LET response == MessageResponse(MessageText, FormatRFC3339(now.wall))
        w1 == HeaderSet(w, "Content-Type", <<"application/json">>)
        w2 == WriteHeader(w1, StatusOK)
        p == Write(w2, JSONEncode(response))
    IN [w |-> p.w,
        log |-> <<LogLine("handleMessage", "Served message to %s", <<<<r.remote>>>>)>>,
        ev |-> p.w.ops \o <<"log.Printf">>]

HandleMessage(w, r, now) ==
    LET response == MessageResponse(MessageText, FormatRFC3339(now.wall))
        w1 == HeaderSet(w, "Content-Type", <<"application/json">>)
        w2 == WriteHeader(w1, StatusOK)
        p == Write(w2, JSONEncode(response))
    IN [w |-> p.w,
        log |-> IF p.err
                THEN <<LogLine("handleMessage", "Error encoding message response: %v",
                               <<<<"short write">>>>)>>
                ELSE <<>>,
        ev |-> p.w.ops \o (IF p.err THEN <<"log.Printf">> ELSE <<>>)]

\* The handler TestLoggingMiddleware wraps: it writes the status and returns.
TestHandler(w, r, now) ==
    LET w1 == WriteHeader(w, StatusOK)
    IN [w |-> w1, log |-> <<>>, ev |-> w1.ops]

\* A handler that panics before it has written anything.
PanicHandler(w, r, now) ==
    [w |-> w, log |-> <<>>, ev |-> <<"panic">>, panic |-> "boom"]

\* A handler that panics with the status and part of a body written.
LatePanicHandler(w, r, now) ==
    LET w1 == WriteHeader(w, StatusOK)
        p == Write(w1, <<"partial">>)
    IN [w |-> p.w, log |-> <<>>, ev |-> p.w.ops \o <<"panic">>, panic |-> "late"]

\* Calling the handler function named name.
CallHandler(name, w, r, now) ==
    CASE name = "handleRoot" -> HandleRoot(w, r, now)
      [] name = "handleHealth" -> HandleHealth(w, r, now)
      [] name = "handleMessage" -> HandleMessage(w, r, now)
      [] name = "testHandler" -> TestHandler(w, r, now)
      [] name = "panicHandler" -> PanicHandler(w, r, now)
      [] name = "latePanicHandler" -> LatePanicHandler(w, r, now)

\* The value a call ended with a panic of, "" when it returned.
Raised(out) == IF "panic" \in DOMAIN out THEN out.panic ELSE ""

\* loggingMiddleware with one handler shared by every closure it returns.
LoggingMiddlewareShared(next) == [kind |-> "loggingMiddleware", next |-> "handleRoot"]

\* loggingMiddleware(next): the closure it returns, holding next.
LoggingMiddleware(next) == [kind |-> "loggingMiddleware", next |-> next]

\* --------------------------------------------------------------- ServeMux

PRoot == <<"/">>
PHealth == <<"/", "health">>
PMessage == <<"/", "api", "/", "message">>

\* net/http cleanPath on these paths: a leading slash, no doubled slashes.
RECURSIVE Collapse(_)
Collapse(p) ==
    IF Len(p) < 2 THEN p
    ELSE IF p[1] = "/" /\ p[2] = "/" THEN Collapse(Tail(p))
    ELSE <<p[1]>> \o Collapse(Tail(p))

CleanPath(p) ==
    IF p = <<>> THEN <<"/">>
    ELSE IF p[1] # "/" THEN Collapse(<<"/">> \o p)
    ELSE Collapse(p)

\* Pattern matching with every pattern naming one path only.
PatternMatchesExact(pattern, path) == pattern = path

\* A pattern ending in a slash names a subtree, any other pattern one path.
PatternMatches(pattern, path) ==
    IF pattern[Len(pattern)] = "/" THEN IsPrefix(pattern, path) ELSE pattern = path

\* mux.HandleFunc(pattern, handler).
HandleFunc(m, pattern, handler) == m \cup {[pattern |-> pattern, handler |-> handler]}

NoHandler == [kind |-> "none", next |-> ""]

\* ServeMux.Handler: a redirect to the clean path, the route with the longest
\* matching pattern, or NotFoundHandler when no pattern matches.
MuxHandler(m, method, path) ==
    LET clean == CleanPath(path)
        hits == {e \in m : PatternMatches(e.pattern, clean)}
    IN IF method # "CONNECT" /\ clean # path
       THEN [kind |-> "redirect", to |-> clean, handler |-> NoHandler]
       ELSE IF /\ method # "CONNECT"
               /\ ~\E e \in m : e.pattern = clean
               /\ \E e \in m : e.pattern = clean \o <<"/">>
       THEN [kind |-> "redirect", to |-> clean \o <<"/">>, handler |-> NoHandler]
       ELSE IF hits = {}
       THEN [kind |-> "notfound", to |-> <<>>, handler |-> NoHandler]
       ELSE LET best == CHOOSE e \in hits :
                            \A f \in hits : Len(f.pattern) <= Len(e.pattern)
            IN [kind |-> "handler", to |-> <<>>, handler |-> best.handler]

\* http.Redirect with StatusMovedPermanently.
Redirect(w, r, to) ==
    LET w1 == HeaderSet(w, "Location", to)
        w2 == IF r.method \in {"GET", "HEAD"}
              THEN HeaderSet(w1, "Content-Type", <<"text/html; charset=utf-8">>)
              ELSE w1
        w3 == WriteHeader(w2, 301)
    IN IF r.method = "GET"
       THEN Write(w3, <<"<a href=">> \o to \o <<">Moved Permanently</a>.">>).w
       ELSE w3

\* http.NotFound.
NotFound(w) ==
    LET w1 == HeaderSet(w, "Content-Type", <<"text/plain; charset=utf-8">>)
        w2 == HeaderSet(w1, "X-Content-Type-Options", <<"nosniff">>)
        w3 == WriteHeader(w2, 404)
    IN Write(w3, <<"404 page not found", "\n">>).w

\* ------------------------------------------------------------- inputs

Methods == {"GET", "POST"}

Paths == {PRoot, PHealth, PMessage, <<"/", "nope">>, <<"/", "health", "/">>,
          <<"/", "/", "health">>}

\* Connections: one that takes every write, one that is gone before the
\* body, one that breaks after three tokens of it.
SinkLimits == {-1, 0, 3}

RemoteAddr == "192.0.2.1:40000"

\* What else a request carries: a POST a body and a content type of its
\* own, any other request neither.
ShapeOf(method) ==
    IF method = "POST"
    THEN [body |-> <<"junk">>, header |-> {<<"Content-Type", <<"text/xml">>>>}]
    ELSE [body |-> <<>>, header |-> {}]

\* The *http.Request the server hands to the handler.
Request(method, path, shape) ==
    [method |-> method, path |-> path, remote |-> RemoteAddr,
     body |-> shape.body, header |-> shape.header]

\* The PORT variable of the environment: unset, empty, or a value.
PortEnvs ==
    {[set |-> FALSE, val |-> <<>>], [set |-> TRUE, val |-> <<>>],
     [set |-> TRUE, val |-> <<"8", "0", "8", "0">>], [set |-> TRUE, val |-> <<"0">>],
     [set |-> TRUE, val |-> <<"a", "b", "c">>],
     [set |-> TRUE, val |-> <<"7", "0", "0", "0", "0">>]}

\* os.Getenv: the empty string for an unset variable too.
Getenv(e) == IF e.set THEN e.val ELSE <<>>

DefaultPort == <<"8", "0", "0", "0">>

\* net.Listen("tcp", addr): the port bound (for port 0 one the kernel picks,
\* here 49152), or -1 with the error.
Listen(addr, inUse) ==
    LET p == Tail(addr)
    IN IF addr = <<>> \/ addr[1] # ":" \/ ~AllDigits(p) \/ Len(p) > 5
       THEN [port |-> -1, err |-> "listen: invalid port"]
       ELSE IF Atoi(p) > 65535 THEN [port |-> -1, err |-> "listen: invalid port"]
       ELSE IF inUse THEN [port |-> -1, err |-> "listen: address already in use"]
       ELSE [port |-> IF Atoi(p) = 0 THEN 49152 ELSE Atoi(p), err |-> ""]

\* ---------------------------------------------------------------- state

VARIABLES
    env,        \* the PORT variable of the process environment
    mainPc,     \* where main is
    port,       \* main's local port
    mux,        \* the routes registered on the ServeMux
    server,     \* the http.Server main builds
    binds,      \* how many times a listener was asked for
    listener,   \* the port the listener is bound to, -1 while there is none
    err,        \* what ListenAndServe returned ("": nothing yet)
    exitCode,   \* the exit status of the process, -1 while it runs
    log,        \* the lines main wrote to the standard logger
    wall,       \* the wall clock
    mono,       \* the monotonic clock
    req,        \* the requests in hand, one per slot, with their log lines
    prevHealth, \* the body of the latest response handleHealth wrote, and
                \* whether there was none, one, or one before it
    setBack,    \* whether the wall clock was set back since that response
    search      \* the call of the test helper contains under way, if any

vars == <<env, mainPc, port, mux, server, binds, listener, err, exitCode, log,
          wall, mono, req, prevHealth, setBack, search>>

mainVars == <<env, mainPc, port, mux, server, binds, listener, err, exitCode, log,
              search>>

\* No call of the test's string helper is under way.
NoSearch == [pc |-> "none", fn |-> "", s |-> <<>>, substr |-> <<>>,
             result |-> FALSE, fault |-> FALSE]

ReqIds == 1..MaxInFlight

NoRequest == [method |-> "", path |-> <<>>, remote |-> "", body |-> <<>>, header |-> {}]

NoServer == [Addr |-> <<>>, Handler |-> "", ReadTimeout |-> 0, WriteTimeout |-> 0,
             IdleTimeout |-> 0]

IdleSlot == [pc |-> "idle", r |-> NoRequest, h |-> NoHandler, w |-> NewSink(-1),
             start |-> 0, calls |-> <<>>, log |-> <<>>, ev |-> <<>>, panic |-> ""]

Init ==
    /\ env \in PortEnvs
    /\ mainPc = "getenv"
    /\ port = <<>>
    /\ mux = {}
    /\ server = NoServer
    /\ binds = 0
    /\ listener = -1
    /\ err = ""
    /\ exitCode = -1
    /\ log = <<>>
    /\ wall \in 1..MaxWall
    /\ mono = 0
    /\ req = [i \in ReqIds |-> IdleSlot]
    /\ prevHealth = [seen |-> "never", body |-> <<>>]
    /\ setBack = FALSE
    /\ search = NoSearch

\* ----------------------------------------------------------------- main

\* The port taken to be 8000 whatever the environment says.
ResolvePortIgnoresEnv(e) == DefaultPort

\* port := os.Getenv("PORT"); if port == "" { port = "8000" }
ResolvePort(e) == IF Getenv(e) = <<>> THEN DefaultPort ELSE Getenv(e)

GetPort ==
    /\ mainPc = "getenv"
    /\ port' = ResolvePort(env)
    /\ mainPc' = "route_root"
    /\ UNCHANGED <<search, env, mux, server, binds, listener, err, exitCode, log,
                   wall, mono, req, prevHealth, setBack>>

Register(at, pattern, handler, then) ==
    /\ mainPc = at
    /\ mux' = HandleFunc(mux, pattern, LoggingMiddleware(handler))
    /\ mainPc' = then
    /\ UNCHANGED <<search, env, port, server, binds, listener, err, exitCode, log,
                   wall, mono, req, prevHealth, setBack>>

HandleFuncRoot == Register("route_root", PRoot, "handleRoot", "route_health")

HandleFuncHealth == Register("route_health", PHealth, "handleHealth", "route_message")

\* main going on to build the server with the third route left out.
HandleFuncMessageSkipped ==
    /\ mainPc = "route_message"
    /\ mainPc' = "server"
    /\ UNCHANGED <<search, env, port, mux, server, binds, listener, err, exitCode, log,
                   wall, mono, req, prevHealth, setBack>>

HandleFuncMessage == Register("route_message", PMessage, "handleMessage", "server")

\* The server with its idle timeout left at zero and its read timeout taken
\* from the length of the port.
NewServerLoose(p) ==
    [Addr |-> <<":">> \o p, Handler |-> "mux", ReadTimeout |-> Len(p),
     WriteTimeout |-> WriteTimeoutSec, IdleTimeout |-> 0]

\* server := &http.Server{...}
NewServer(p) ==
    [Addr |-> <<":">> \o p, Handler |-> "mux", ReadTimeout |-> ReadTimeoutSec,
     WriteTimeout |-> WriteTimeoutSec, IdleTimeout |-> IdleTimeoutSec]

MakeServer ==
    /\ mainPc = "server"
    /\ server' = NewServer(port)
    /\ mainPc' = "log_starting"
    /\ UNCHANGED <<search, env, port, mux, binds, listener, err, exitCode, log,
                   wall, mono, req, prevHealth, setBack>>

LogStarting ==
    /\ mainPc = "log_starting"
    /\ log' = Append(log, LogLine("main", "Starting server on port %s", <<port>>))
    /\ mainPc' = "log_access"
    /\ UNCHANGED <<search, env, port, mux, server, binds, listener, err, exitCode,
                   wall, mono, req, prevHealth, setBack>>

LogAccess ==
    /\ mainPc = "log_access"
    /\ log' = Append(log, LogLine("main", "Access the application at http://localhost:%s",
                                  <<port>>))
    /\ mainPc' = "listen"
    /\ UNCHANGED <<search, env, port, mux, server, binds, listener, err, exitCode,
                   wall, mono, req, prevHealth, setBack>>

\* server.ListenAndServe(): one net.Listen on server.Addr; it serves when that
\* succeeds and returns the error when it does not.
ListenAndServe ==
    /\ mainPc = "listen"
    /\ \E inUse \in BOOLEAN :
         LET l == Listen(server.Addr, inUse)
         IN /\ binds' = binds + 1
            /\ listener' = l.port
            /\ err' = l.err
            /\ mainPc' = IF l.err = "" THEN "serving" ELSE "returned"
    /\ UNCHANGED <<search, env, port, mux, server, exitCode, log,
                   wall, mono, req, prevHealth, setBack>>

\* Serve's accept loop ends on a listener error: ListenAndServe returns it.
AcceptError ==
    /\ mainPc = "serving"
    /\ err' = "accept: listener failed"
    /\ listener' = -1
    /\ mainPc' = "returned"
    /\ UNCHANGED <<search, env, port, mux, server, binds, exitCode, log,
                   wall, mono, req, prevHealth, setBack>>

\* main returning without a word when ListenAndServe comes back.
AfterListenAndServeQuiet(e, lg) == [log |-> lg, exitCode |-> 0]

\* if err := server.ListenAndServe(); err != nil { log.Fatalf(...) }: the line
\* and exit status 1; with no error main returns, exit status 0.
AfterListenAndServe(e, lg) ==
    IF e # ""
    THEN [log |-> Append(lg, LogLine("main", "Server failed to start: %v", <<<<e>>>>)),
          exitCode |-> 1]
    ELSE [log |-> lg, exitCode |-> 0]

Exit ==
    /\ mainPc = "returned"
    /\ log' = AfterListenAndServe(err, log).log
    /\ exitCode' = AfterListenAndServe(err, log).exitCode
    /\ mainPc' = "exited"
    /\ UNCHANGED <<search, env, port, mux, server, binds, listener, err,
                   wall, mono, req, prevHealth, setBack>>

\* ---------------------------------------------------------------- clock

\* Handlers run while the server serves, and while the test of the
\* middleware calls the wrapped handler itself.
HandlersRun == mainPc \in {"serving", "testing"}

\* Time passes: both clocks advance.
Tick ==
    /\ HandlersRun
    /\ wall < MaxWall
    /\ mono < MaxMono
    /\ wall' = wall + 1
    /\ mono' = mono + 1
    /\ UNCHANGED <<mainVars, req, prevHealth, setBack>>

\* The wall clock is set (clock synchronisation, an operator): forwards or
\* backwards; the monotonic clock is not affected.
ClockSet ==
    /\ mainPc = "serving"
    /\ \E t \in 1..MaxWall :
         /\ t # wall
         /\ wall' = t
         /\ setBack' = (setBack \/ (prevHealth.seen # "never" /\ t < wall))
    /\ UNCHANGED <<mainVars, mono, req, prevHealth>>

\* time.Now(): a wall reading and a monotonic reading.
Now == [wall |-> wall, mono |-> mono]

\* -------------------------------------------------------------- requests

Busy(i) == req[i].pc \in {"dispatched", "started", "returned"}

InFlight == Cardinality({i \in ReqIds : Busy(i)})

\* The server reads a request off a connection and calls mux.ServeHTTP, which
\* answers itself (redirect, not found) or picks the registered handler.
Route(m, r, w) ==
    LET d == MuxHandler(m, r.method, r.path)
    IN CASE d.kind = "redirect" ->
              [pc |-> "done", r |-> r, h |-> NoHandler, w |-> Redirect(w, r, d.to),
               start |-> 0, calls |-> <<>>, log |-> <<>>, ev |-> <<>>, panic |-> ""]
         [] d.kind = "notfound" ->
              [pc |-> "done", r |-> r, h |-> NoHandler, w |-> NotFound(w),
               start |-> 0, calls |-> <<>>, log |-> <<>>, ev |-> <<>>, panic |-> ""]
         [] d.kind = "handler" ->
              [pc |-> "dispatched", r |-> r, h |-> d.handler, w |-> w,
               start |-> 0, calls |-> <<>>, log |-> <<>>, ev |-> <<>>, panic |-> ""]

Serve(i, atOnce) ==
    /\ mainPc = "serving"
    /\ ~Busy(i)
    /\ \A j \in ReqIds : j < i => Busy(j)
    /\ InFlight < atOnce
    /\ \E method \in Methods, path \in Paths, limit \in SinkLimits :
         req' = [req EXCEPT ![i] =
                    Route(mux, Request(method, path, ShapeOf(method)), NewSink(limit))]
    /\ UNCHANGED <<mainVars, wall, mono, prevHealth, setBack>>

\* time.Since with its operands the wrong way round.
SinceBackwards(start, now) == start - now.mono

\* time.Since(start): the monotonic reading now less the one start carries.
Since(start, now) == now.mono - start

\* A Duration under %v: a sign when negative, then the digits.
FormatDuration(d) == IF d < 0 THEN <<"-">> \o Itoa(0 - d) ELSE Itoa(d)

\* The closure's first statement: start := time.Now().
MwStart(i) ==
    /\ HandlersRun
    /\ req[i].pc = "dispatched"
    /\ req[i].h.kind = "loggingMiddleware"
    /\ req' = [req EXCEPT ![i].start = Now.mono,
                           ![i].ev = Append(@, "time.Now"),
                           ![i].pc = "started"]
    /\ UNCHANGED <<mainVars, wall, mono, prevHealth, setBack>>

\* The closure calling next with a request of its own making.
MwCallOtherRequest(i) ==
    [h |-> req[i].h.next, w |-> i, r |-> [req[i].r EXCEPT !.method = "GET"]]

\* The closure writing every response to the first connection's writer.
MwCallSharedWriter(i) == [h |-> req[i].h.next, w |-> 1, r |-> req[i].r]

\* The arguments of the closure's call next(w, r): its own w and r.
MwCall(i) == [h |-> req[i].h.next, w |-> i, r |-> req[i].r]

\* The closure recovering from a panic of next and carrying on.
UnwindRecovered(p) == ""

\* A panic of next passing through the closure, which defers nothing and
\* calls recover nowhere: its caller gets the value next raised.
Unwind(p) == p

\* next(w, r) runs to its return, or to a panic that ends the closure too.
MwNext(i) ==
    /\ HandlersRun
    /\ req[i].pc = "started"
    /\ LET c == MwCall(i)
           out == CallHandler(c.h, req[c.w].w, c.r, Now)
           r1 == [req EXCEPT ![c.w].w = out.w]
       IN /\ req' = [r1 EXCEPT ![i].calls = Append(@, c),
                                ![i].log = @ \o out.log,
                                ![i].ev = @ \o out.ev,
                                ![i].panic = Unwind(Raised(out)),
                                ![i].pc = IF Unwind(Raised(out)) = "" THEN "returned"
                                          ELSE "panicked"]
          /\ IF c.h = "handleHealth"
             THEN /\ prevHealth' = [seen |-> IF prevHealth.seen = "never" THEN "once"
                                                ELSE "before",
                                      body |-> out.w.body]
                  /\ setBack' = FALSE
             ELSE UNCHANGED <<prevHealth, setBack>>
    /\ UNCHANGED <<mainVars, wall, mono>>

\* duration := time.Since(start), from the monotonic readings; then the line.
MwEnd(i) ==
    /\ HandlersRun
    /\ req[i].pc = "returned"
    /\ LET duration == Since(req[i].start, Now)
       IN req' = [req EXCEPT
                     ![i].log = Append(@, LogLine("loggingMiddleware", "%s %s completed in %v",
                                                  <<<<req[i].r.method>>, req[i].r.path,
                                                    FormatDuration(duration)>>)),
                     ![i].ev = @ \o <<"time.Since", "log.Printf">>,
                     ![i].start = 0,
                     ![i].pc = "done"]
    /\ UNCHANGED <<mainVars, wall, mono, prevHealth, setBack>>

\* ------------------------------------------------------------------ spec

Startup ==
    \/ GetPort
    \/ HandleFuncRoot
    \/ HandleFuncHealth
    \/ HandleFuncMessage
    \/ MakeServer
    \/ LogStarting
    \/ LogAccess
    \/ ListenAndServe
    \/ AcceptError
    \/ Exit

\* Requests handled one after another.
Next ==
    \/ Startup
    \/ Tick
    \/ ClockSet
    \/ \E i \in ReqIds : Serve(i, 1)
    \/ \E i \in ReqIds : MwStart(i)
    \/ \E i \in ReqIds : MwNext(i)
    \/ \E i \in ReqIds : MwEnd(i)

Spec == Init /\ [][Next]_vars

\* ------------------------------------------------- concurrent requests

\* net/http serves each connection on a goroutine of its own, so handlers
\* and closures of different requests interleave statement by statement.
\* Each connection carries one GET for a registered path and takes every
\* write; PORT is unset, the wall clock is left alone and the listener
\* stays up.
InitConc ==
    /\ Init
    /\ env = [set |-> FALSE, val |-> <<>>]
    /\ wall = 1

ServeConc(i) ==
    /\ mainPc = "serving"
    /\ req[i].pc = "idle"
    /\ \A j \in ReqIds : j < i => req[j].pc # "idle"
    /\ \E path \in {PRoot, PHealth, PMessage} :
         req' = [req EXCEPT ![i] =
                    Route(mux, Request("GET", path, ShapeOf("GET")), NewSink(-1))]
    /\ UNCHANGED <<mainVars, wall, mono, prevHealth, setBack>>

NextConc ==
    \/ GetPort
    \/ HandleFuncRoot
    \/ HandleFuncHealth
    \/ HandleFuncMessage
    \/ MakeServer
    \/ LogStarting
    \/ LogAccess
    \/ ListenAndServe
    \/ Tick
    \/ \E i \in ReqIds : ServeConc(i)
    \/ \E i \in ReqIds : MwStart(i)
    \/ \E i \in ReqIds : MwNext(i)
    \/ \E i \in ReqIds : MwEnd(i)

SpecConc == InitConc /\ [][NextConc]_vars

\* ---------------------------------------------- the middleware's test

\* The test binary: no server runs. TestLoggingMiddleware calls
\* loggingMiddleware(next) itself, with a recorder and a request for "/test";
\* next is its own handler or one that panics.
TestBinary ==
    /\ env = [set |-> FALSE, val |-> <<>>]
    /\ mainPc = "testing"
    /\ port = <<>>
    /\ mux = {}
    /\ server = NoServer
    /\ binds = 0
    /\ listener = -1
    /\ err = ""
    /\ exitCode = -1
    /\ log = <<>>
    /\ wall \in 1..MaxWall
    /\ mono = 0
    /\ req = [i \in ReqIds |-> IdleSlot]
    /\ prevHealth = [seen |-> "never", body |-> <<>>]
    /\ setBack = FALSE

InitTest == TestBinary /\ search = NoSearch

WrappedInTest == {"testHandler", "panicHandler", "latePanicHandler"}

\* wrappedHandler(rec, req)
TestCall(i) ==
    /\ mainPc = "testing"
    /\ ~Busy(i)
    /\ \A j \in ReqIds : j < i => Busy(j)
    /\ InFlight < 1
    /\ \A j \in ReqIds : req[j].pc # "panicked"
    /\ \E next \in WrappedInTest, method \in Methods :
         req' = [req EXCEPT ![i] =
                    [pc |-> "dispatched",
                     r |-> Request(method, <<"/", "test">>, ShapeOf(method)),
                     h |-> LoggingMiddleware(next), w |-> NewSink(-1),
                     start |-> 0, calls |-> <<>>, log |-> <<>>, ev |-> <<>>,
                     panic |-> ""]]
    /\ UNCHANGED <<mainVars, wall, mono, prevHealth, setBack>>

\* A panic that reached the test function ends the test binary with it.
TestAbort(i) ==
    /\ mainPc = "testing"
    /\ req[i].pc = "panicked"
    /\ err' = req[i].panic
    /\ exitCode' = 2
    /\ mainPc' = "exited"
    /\ UNCHANGED <<search, env, port, mux, server, binds, listener, log,
                   wall, mono, req, prevHealth, setBack>>

NextTest ==
    \/ Tick
    \/ \E i \in ReqIds : TestCall(i)
    \/ \E i \in ReqIds : MwStart(i)
    \/ \E i \in ReqIds : MwNext(i)
    \/ \E i \in ReqIds : MwEnd(i)
    \/ \E i \in ReqIds : TestAbort(i)

SpecTest == InitTest /\ [][NextTest]_vars

\* --------------------------------------------- the test helper contains

\* Strings are sequences of characters here, one element per byte.
Alphabet == {"a", "b"}

Strings == UNION {[1..n -> Alphabet] : n \in 0..MaxLen}

\* Go's s[lo:hi] with lo and hi counted from 0: out of range when the
\* bounds are not 0 <= lo <= hi <= len(s), and then the program panics.
Slice(s, lo, hi) ==
    IF lo < 0 \/ hi > Len(s) \/ lo > hi
    THEN [fault |-> TRUE, val |-> <<>>]
    ELSE [fault |-> FALSE, val |-> SubSeq(s, lo + 1, hi)]

\* The loop running as far as the last index of s.
LastIndexOfS(s, substr) == Len(s) - 1

\* The last value of i the loop of containsHelper takes.
LastIndex(s, substr) == Len(s) - Len(substr)

\* The loop of containsHelper from i on: the value returned, and whether a
\* slice expression was out of range on the way.
RECURSIVE HelperFrom(_, _, _)
HelperFrom(s, substr, i) ==
    IF i > LastIndex(s, substr) THEN [result |-> FALSE, fault |-> FALSE]
    ELSE LET x == Slice(s, i, i + Len(substr))
         IN IF x.fault THEN [result |-> FALSE, fault |-> TRUE]
            ELSE IF x.val = substr THEN [result |-> TRUE, fault |-> FALSE]
            ELSE HelperFrom(s, substr, i + 1)

containsHelper(s, substr) == HelperFrom(s, substr, 0)

\* contains, with && and || evaluated left to right and cut short.
contains(s, substr) ==
    IF ~(Len(s) >= Len(substr)) THEN [result |-> FALSE, fault |-> FALSE]
    ELSE IF s = substr THEN [result |-> TRUE, fault |-> FALSE]
    ELSE IF ~(Len(s) > Len(substr)) THEN [result |-> FALSE, fault |-> FALSE]
    ELSE containsHelper(s, substr)

\* A test about to call one of the two functions on two strings.
InitSearch ==
    /\ TestBinary
    /\ wall = 1
    /\ \E fn \in {"contains", "containsHelper"}, s \in Strings, substr \in Strings :
         search = [pc |-> "ready", fn |-> fn, s |-> s, substr |-> substr,
                   result |-> FALSE, fault |-> FALSE]

\* The call returns, or panics on a slice out of range.
Searched(fn, out) ==
    /\ mainPc = "testing"
    /\ search.pc = "ready"
    /\ search.fn = fn
    /\ search' = [search EXCEPT !.pc = IF out.fault THEN "panicked" ELSE "returned",
                                !.result = out.result,
                                !.fault = out.fault]
    /\ UNCHANGED <<env, mainPc, port, mux, server, binds, listener, err, exitCode, log,
                   wall, mono, req, prevHealth, setBack>>

CallContains == Searched("contains", contains(search.s, search.substr))

CallContainsHelper ==
    Searched("containsHelper", containsHelper(search.s, search.substr))

NextSearch ==
    \/ CallContains
    \/ CallContainsHelper

SpecSearch == InitSearch /\ [][NextSearch]_vars

\* The wrapped handler of slot i has returned.
Returned(i) == req[i].pc \in {"returned", "done"}

\* The request of slot i was handled by the handler function named name.
HandledBy(i, name) ==
    Returned(i) /\ \E k \in 1..Len(req[i].calls) : req[i].calls[k].h = name

\* The Content-Type the response of slot i went out with.
ContentType(i) == HeaderGet(req[i].w.sent, "Content-Type")

\* The step in which the handler function named name returns in slot i.
Returns(i, name) ==
    /\ req[i].pc = "started"
    /\ req'[i].pc = "returned"
    /\ req'[i].calls[Len(req'[i].calls)].h = name

\* ------------------------------------------------------------------ C1

\* C1 as stated: every request handled by the root handler, whatever its
\* method, has status 200, Content-Type "text/html; charset=utf-8" and the
\* fixed body with "Hello DevOps", "/health" and "/api/message" in it.
C1_RootAlwaysWholePage ==
    \A i \in ReqIds :
        HandledBy(i, "handleRoot") =>
            /\ req[i].w.status = 200
            /\ ContentType(i) = <<"text/html; charset=utf-8">>
            /\ req[i].w.body = Html
            /\ HasToken(req[i].w.body, "Hello DevOps")
            /\ HasToken(req[i].w.body, "/health")
            /\ HasToken(req[i].w.body, "/api/message")

\* C1, amended: every request handled by the root handler, whatever its
\* method, has status 200 and Content-Type "text/html; charset=utf-8"; the
\* body is the fixed page, with the three substrings in it, when the sink took
\* the write, and a cut-off beginning of that page when the write failed.
C1_RootResponse ==
    \A i \in ReqIds :
        HandledBy(i, "handleRoot") =>
            /\ req[i].w.status = 200
            /\ ContentType(i) = <<"text/html; charset=utf-8">>
            /\ ~req[i].w.short =>
                  /\ req[i].w.body = Html
                  /\ HasToken(req[i].w.body, "Hello DevOps")
                  /\ HasToken(req[i].w.body, "/health")
                  /\ HasToken(req[i].w.body, "/api/message")
            /\ req[i].w.short =>
                  /\ IsPrefix(req[i].w.body, Html)
                  /\ Len(req[i].w.body) < Len(Html)

\* C1's case: a POST to the root path answered with the whole page.
C1_Witness ==
    \E i \in ReqIds :
        /\ HandledBy(i, "handleRoot")
        /\ req[i].r.method = "POST"
        /\ req[i].r.path = PRoot
        /\ req[i].w.body = Html

\* ------------------------------------------------------------------ C2

\* The values a body, whole or cut off, gives for the member named status.
StatusValues(body) ==
    {body[k + 4] : k \in {j \in 1..(Len(body) - 4) :
                            body[j] = "status" /\ body[j + 2] = ":"}}

\* C2 as stated: every request handled by the health handler has status 200,
\* Content-Type "application/json" and a body with exactly the fields status,
\* timestamp and version, status "healthy", version "1.0.0" and a non-zero
\* timestamp.
C2_HealthAlwaysWholeBody ==
    \A i \in ReqIds :
        HandledBy(i, "handleHealth") =>
            LET d == JSONDecode(req[i].w.body)
            IN /\ req[i].w.status = 200
               /\ ContentType(i) = <<"application/json">>
               /\ d.ok
               /\ FieldNames(d.fields) = <<"status", "timestamp", "version">>
               /\ FieldValue(d.fields, "status") = <<"healthy">>
               /\ FieldValue(d.fields, "version") = <<"1.0.0">>
               /\ ParseRFC3339(FieldValue(d.fields, "timestamp")) > 0

\* What C2 says of every state.
C2_HealthShape ==
    \A i \in ReqIds :
        HandledBy(i, "handleHealth") =>
            LET d == JSONDecode(req[i].w.body)
            IN /\ req[i].w.status = 200
               /\ ContentType(i) = <<"application/json">>
               /\ StatusValues(req[i].w.body) \subseteq {"healthy"}
               /\ ~req[i].w.short =>
                     /\ d.ok
                     /\ FieldNames(d.fields) = <<"status", "timestamp", "version">>
                     /\ FieldValue(d.fields, "status") = <<"healthy">>
                     /\ FieldValue(d.fields, "version") = <<"1.0.0">>
                     /\ ParseRFC3339(FieldValue(d.fields, "timestamp")) > 0

\* What C2 says of the step in which handleHealth runs: the timestamp in the
\* body is the wall clock as it stands in that step.
C2_HealthClock ==
    \A i \in ReqIds :
        (Returns(i, "handleHealth") /\ ~req'[i].w.short) =>
            ParseRFC3339(FieldValue(JSONDecode(req'[i].w.body).fields, "timestamp")) = wall

\* C2, amended: every request handled by the health handler has status 200 and
\* Content-Type "application/json", and no response carries a status value
\* other than "healthy"; when the sink took the write, the body has exactly
\* the fields status, timestamp and version, status "healthy", version
\* "1.0.0", and timestamp the non-zero clock value read while the request was
\* handled.
C2_HealthResponse == []C2_HealthShape /\ [][C2_HealthClock]_vars

\* C2's case: a whole health body whose timestamp is the wall clock after it
\* has advanced.
C2_Witness ==
    \E i \in ReqIds :
        /\ HandledBy(i, "handleHealth")
        /\ ~req[i].w.short
        /\ ParseRFC3339(FieldValue(JSONDecode(req[i].w.body).fields, "timestamp")) = MaxWall

\* ------------------------------------------------------------------ C3

\* C3 as stated: every request handled by the message handler has status 200,
\* Content-Type "application/json" and a body with the fields message and
\* time, message the fixed non-empty literal and time non-empty.
C3_MessageAlwaysWholeBody ==
    \A i \in ReqIds :
        HandledBy(i, "handleMessage") =>
            LET d == JSONDecode(req[i].w.body)
            IN /\ req[i].w.status = 200
               /\ ContentType(i) = <<"application/json">>
               /\ d.ok
               /\ FieldNames(d.fields) = <<"message", "time">>
               /\ FieldValue(d.fields, "message") = <<MessageText>>
               /\ MessageText # ""
               /\ FieldValue(d.fields, "time") # <<>>

\* C3, amended: every request handled by the message handler has status 200
\* and Content-Type "application/json"; when the sink took the write, the body
\* has the fields message and time, message the same fixed non-empty literal
\* on every request and time non-empty.
C3_MessageResponse ==
    \A i \in ReqIds :
        HandledBy(i, "handleMessage") =>
            LET d == JSONDecode(req[i].w.body)
            IN /\ req[i].w.status = 200
               /\ ContentType(i) = <<"application/json">>
               /\ ~req[i].w.short =>
                     /\ d.ok
                     /\ FieldNames(d.fields) = <<"message", "time">>
                     /\ FieldValue(d.fields, "message") = <<MessageText>>
                     /\ MessageText # ""
                     /\ FieldValue(d.fields, "time") # <<>>

\* C3's case: a whole message body sent in answer to a POST.
C3_Witness ==
    \E i \in ReqIds :
        /\ HandledBy(i, "handleMessage")
        /\ req[i].r.method = "POST"
        /\ JSONDecode(req[i].w.body).ok

\* ------------------------------------------------------------------ C4

\* The wrapped handler is called once, when the closure has started and not
\* before, with the closure's own sink and request.
C4_CalledOnce ==
    \A i \in ReqIds :
        req[i].h.kind = "loggingMiddleware" =>
            /\ req[i].pc \in {"dispatched", "started"} => req[i].calls = <<>>
            /\ Returned(i) =>
                  req[i].calls = <<[h |-> req[i].h.next, w |-> i, r |-> req[i].r]>>

\* The sink changes only in the step that runs the wrapped handler, and there
\* it becomes what the handler, called on its own with the same sink and
\* request, leaves on it.
C4_SinkIsHandlers ==
    \A i \in ReqIds :
        /\ (req[i].pc = "dispatched" /\ req'[i].pc = "started") => req'[i].w = req[i].w
        /\ (req[i].pc = "started" /\ req'[i].pc = "returned") =>
              req'[i].w = CallHandler(req[i].h.next, req[i].w, req[i].r, Now).w
        /\ (req[i].pc = "returned" /\ req'[i].pc = "done") => req'[i].w = req[i].w
        /\ req'[i].w # req[i].w =>
              \/ req[i].pc = "started" /\ req'[i].pc = "returned"
              \/ ~Busy(i) /\ req'[i].pc \in {"dispatched", "done"}

\* C4: invoking loggingMiddleware(H) invokes H exactly once with the same
\* sink and the same request, and the status, headers and body on the sink
\* afterwards are exactly those H produced: the middleware writes nothing.
C4_MiddlewareTransparent == []C4_CalledOnce /\ [][C4_SinkIsHandlers]_vars

\* C4's case: a wrapped handler has run and the closure has finished.
C4_Witness ==
    \E i \in ReqIds :
        /\ req[i].pc = "done"
        /\ req[i].h.kind = "loggingMiddleware"
        /\ req[i].r.method = "POST"
        /\ Len(req[i].calls) = 1
        /\ req[i].w.status = 200

\* ------------------------------------------------------------------ C5

RoutedPaths == {PRoot, PHealth, PMessage}

BoundTo(path) ==
    CASE path = PRoot -> "handleRoot"
      [] path = PHealth -> "handleHealth"
      [] path = PMessage -> "handleMessage"

Completions(i) ==
    {k \in 1..Len(req[i].log) : req[i].log[k].by = "loggingMiddleware"}

\* C6: a request whose path is exactly "/", "/health" or "/api/message"
\* invokes exactly the handler bound to that path, once, through the wrapper
\* registered for that path, and neither of the other two handlers; the three
\* wrappers are three closures, each holding its own handler.
C6_ExactRoutes ==
    /\ mainPc = "serving" =>
          /\ Cardinality(mux) = 3
          /\ \A e \in mux :
                /\ e.pattern \in RoutedPaths
                /\ e.handler = [kind |-> "loggingMiddleware", next |-> BoundTo(e.pattern)]
          /\ \A e, f \in mux : e.pattern # f.pattern => e.handler # f.handler
    /\ \A i \in ReqIds :
          (req[i].pc # "idle" /\ req[i].r.path \in RoutedPaths) =>
              /\ [pattern |-> req[i].r.path, handler |-> req[i].h] \in mux
              /\ req[i].h.next = BoundTo(req[i].r.path)
              /\ \A k \in 1..Len(req[i].calls) :
                    req[i].calls[k].h = BoundTo(req[i].r.path)
              /\ Returned(i) => Len(req[i].calls) = 1
              /\ req[i].pc = "done" => Cardinality(Completions(i)) = 1

\* C6's case: "/api/message" has been answered by handleMessage alone.
C6_Witness ==
    \E i \in ReqIds :
        /\ req[i].pc = "done"
        /\ req[i].r.path = PMessage
        /\ req[i].calls = <<[h |-> "handleMessage", w |-> i, r |-> req[i].r]>>

\* ------------------------------------------------------------------ C7

PortUnsetOrEmpty == ~env.set \/ env.val = <<>>

\* A port number a listener can be asked for by number: 1 to 65535.
ValidPort(p) == AllDigits(p) /\ Len(p) <= 5 /\ Atoi(p) \in 1..65535

\* Once chosen, the port is 8000 for an unset or empty PORT and the value of
\* PORT otherwise; the server is built for it and, when it serves, is bound
\* to it.
C7_PortChosen ==
    /\ mainPc # "getenv" =>
          /\ PortUnsetOrEmpty => port = <<"8", "0", "0", "0">>
          /\ ~PortUnsetOrEmpty => port = env.val
    /\ server # NoServer => server.Addr = <<":">> \o port
    /\ mainPc = "serving" =>
          /\ PortUnsetOrEmpty => listener = 8000
          /\ (~PortUnsetOrEmpty /\ ValidPort(env.val)) => listener = Atoi(env.val)

\* After it is chosen the port does not change, nor does the server's address
\* or the port the listener is bound to.
C7_PortFixed ==
    /\ mainPc # "getenv" => port' = port
    /\ server # NoServer => server' = server
    /\ listener # -1 => listener' \in {listener, -1}

\* C7: the listen port is chosen once at start-up: 8000 when PORT is unset or
\* empty, exactly the value of PORT when that is a valid non-empty value; the
\* chosen port never changes afterwards.
C7_PortSelection == []C7_PortChosen /\ [][C7_PortFixed]_vars

\* C7's case: the server is serving on the port PORT names.
C7_Witness ==
    /\ mainPc = "serving"
    /\ env.set
    /\ env.val = <<"8", "0", "8", "0">>
    /\ listener = 8080

\* ------------------------------------------------------------------ C8

\* A listener is asked for at most once, on the chosen port; when
\* ListenAndServe has returned, its error is about to be logged and the
\* process about to exit; when the process has exited, the last line logged is
\* that error and the status is 1.
C8_FailureIsFatal ==
    /\ binds <= 1
    /\ exitCode \in {-1, 1}
    /\ binds = 1 => server.Addr = <<":">> \o ResolvePort(env)
    /\ mainPc = "returned" =>
          /\ err # ""
          /\ listener = -1
          /\ ENABLED Exit
          /\ ~ENABLED ListenAndServe
    /\ mainPc = "exited" =>
          /\ exitCode = 1
          /\ listener = -1
          /\ log # <<>>
          /\ log[Len(log)] = LogLine("main", "Server failed to start: %v", <<<<err>>>>)
    /\ mainPc # "exited" => exitCode = -1

\* Once ListenAndServe has returned, nothing binds again and nothing changes
\* the address.
C8_NoRetry ==
    mainPc \in {"returned", "exited"} =>
        /\ binds' = binds
        /\ listener' = -1
        /\ server' = server
        /\ port' = port

\* C8: when the listener fails to start, the process logs the error and
\* terminates with a non-zero exit status, without a second bind attempt and
\* without trying another port; the process never exits with status zero.
C8_StartupFailure == []C8_FailureIsFatal /\ [][C8_NoRetry]_vars

\* C8's case: the port was taken, and the process has exited.
C8_Witness ==
    /\ mainPc = "exited"
    /\ err = "listen: address already in use"
    /\ binds = 1
    /\ exitCode = 1

\* ------------------------------------------------------------------ C9

JSONHandlers == {"handleHealth", "handleMessage"}

HeaderWrites(i) == {k \in 1..Len(req[i].w.ops) : req[i].w.ops[k] = "WriteHeader"}

\* C9: when JSON encoding of the body fails in the health or message handler,
\* status 200 and Content-Type application/json are committed and stay, the
\* handler emits exactly one error line, no other status is written, the
\* handler returns so that the middleware logs completion, and the body is
\* incomplete or empty.
C9_EncodeFailure ==
    \A i \in ReqIds : \A name \in JSONHandlers :
        (HandledBy(i, name) /\ req[i].w.short) =>
            /\ req[i].w.status = 200
            /\ ContentType(i) = <<"application/json">>
            /\ req[i].w.header = req[i].w.sent
            /\ Cardinality(HeaderWrites(i)) = 1
            /\ {k \in 1..Len(req[i].log) : req[i].log[k].by = name} = {1}
            /\ req[i].log[1].fmt \in {"Error encoding health response: %v",
                                      "Error encoding message response: %v"}
            /\ ~JSONDecode(req[i].w.body).ok
            /\ Len(req[i].w.body) <= req[i].w.limit
            /\ (req[i].pc = "returned" /\ mainPc = "serving") => ENABLED MwEnd(i)
            /\ req[i].pc = "done" =>
                  /\ Len(req[i].log) = 2
                  /\ req[i].log[2].by = "loggingMiddleware"

\* C9's case: the health body broke off part-way and the closure has logged
\* completion.
C9_Witness ==
    \E i \in ReqIds :
        /\ req[i].pc = "done"
        /\ HandledBy(i, "handleHealth")
        /\ req[i].w.short
        /\ Len(req[i].w.body) = 3
        /\ Len(req[i].log) = 2

\* ----------------------------------------------------------------- C10

HealthShape == <<"status", "timestamp", "version">>

Timestamp(body) == ParseRFC3339(FieldValue(JSONDecode(body).fields, "timestamp"))

SameShape(a, b) ==
    /\ FieldNames(a.fields) = HealthShape
    /\ FieldNames(b.fields) = HealthShape
    /\ FieldValue(a.fields, "status") = FieldValue(b.fields, "status")
    /\ FieldValue(a.fields, "version") = FieldValue(b.fields, "version")

\* C10 as stated: each /health response, compared with the one before it, has
\* the same JSON shape and a timestamp that is not smaller.
C10_AlwaysSameShapeAndLater ==
    \A i \in ReqIds :
        (Returns(i, "handleHealth") /\ prevHealth.seen # "never") =>
            LET a == JSONDecode(prevHealth.body)
                b == JSONDecode(req'[i].w.body)
            IN /\ a.ok
               /\ b.ok
               /\ SameShape(a, b)
               /\ Timestamp(req'[i].w.body) >= Timestamp(prevHealth.body)

C10_HealthIdempotentAsStated == [][C10_AlwaysSameShapeAndLater]_vars

\* Two /health responses in a row, both written whole.
C10_SameShapeAndLater ==
    \A i \in ReqIds :
        (Returns(i, "handleHealth") /\ prevHealth.seen # "never") =>
            LET a == JSONDecode(prevHealth.body)
                b == JSONDecode(req'[i].w.body)
                whole == ~req'[i].w.short /\ a.ok
            IN /\ ~req'[i].w.short => b.ok
               /\ whole => SameShape(a, b)
               /\ (whole /\ ~setBack) =>
                     Timestamp(req'[i].w.body) >= Timestamp(prevHealth.body)

\* C10, amended: for requests to /health handled one after another, every
\* response written whole has the same JSON shape (the same three fields, the
\* same status and version), and of two successive whole responses the second
\* timestamp is not smaller than the first unless the wall clock was set back
\* between them.
C10_HealthIdempotent == [][C10_SameShapeAndLater]_vars

\* C10's case: a second /health response, written whole after an earlier one
\* with no setting back of the clock since.
C10_Witness ==
    \E i \in ReqIds :
        /\ HandledBy(i, "handleHealth")
        /\ prevHealth.seen = "before"
        /\ prevHealth.body = req[i].w.body
        /\ JSONDecode(prevHealth.body).ok
        /\ Timestamp(prevHealth.body) = MaxWall

\* ----------------------------------------------------------------- C11

\* What the wrapped handler of slot i writes to a fresh writer when it runs
\* with nothing else in flight and reads the wall clock at t.
HandledAlone(i, t) ==
    CallHandler(req[i].h.next, NewSink(req[i].w.limit), req[i].r,
                [wall |-> t, mono |-> 0]).w

\* Until its handler has run a response is untouched, and afterwards it is,
\* up to the clock value read, the response of the request handled alone.
C11_SameAsAlone ==
    \A i \in ReqIds :
        req[i].h.kind = "loggingMiddleware" =>
            /\ req[i].pc \in {"dispatched", "started"} =>
                  req[i].w = NewSink(req[i].w.limit)
            /\ Returned(i) => \E t \in 1..MaxWall : req[i].w = HandledAlone(i, t)

\* A step of one request changes nothing of any other request, and the
\* handler's step writes what it would write alone at that moment.
C11_OwnStepOnly ==
    \A i \in ReqIds :
        /\ req'[i] # req[i] => \A j \in ReqIds \ {i} : req'[j] = req[j]
        /\ (req[i].pc = "started" /\ req'[i].pc = "returned") =>
              req'[i].w = HandledAlone(i, wall)
        /\ (Busy(i) /\ Busy(i)') => /\ req'[i].r = req[i].r
                                     /\ req'[i].h = req[i].h
        /\ Busy(i) => mux' = mux

\* C11: under any interleaving of the requests in flight, no request's
\* handling reads or writes what another request can change: status, header
\* and body of each response are, but for the clock value read, those of
\* the request handled alone.
C11_RequestsIsolated == []C11_SameAsAlone /\ [][C11_OwnStepOnly]_vars

\* Two health requests in flight, the later one answered first.
C11_Witness ==
    /\ req[1].pc = "started"
    /\ req[2].pc = "returned"
    /\ req[1].r.path = PHealth
    /\ req[2].r.path = PHealth
    /\ req[2].w.status = 200

\* ----------------------------------------------------------------- C12

\* The string-valued field name of the JSON body of slot i.
BodyField(i, name) == FieldValue(JSONDecode(req[i].w.body).fields, name)

\* Every time and timestamp field sent parses as an RFC 3339 timestamp; the
\* message's time is a whole number of seconds.
C12_Parseable ==
    \A i \in ReqIds :
        /\ (HandledBy(i, "handleMessage") /\ JSONDecode(req[i].w.body).ok) =>
              /\ ParseRFC3339(BodyField(i, "time")) >= 0
              /\ ParseRFC3339(BodyField(i, "time")) % TicksPerSec = 0
        /\ (HandledBy(i, "handleHealth") /\ JSONDecode(req[i].w.body).ok) =>
              ParseRFC3339(BodyField(i, "timestamp")) >= 0
        /\ (Returned(i) /\ req[i].h.next \in {"handleHealth", "handleMessage"}
              /\ ~req[i].w.short) => JSONDecode(req[i].w.body).ok

\* The field is the wall clock as read in the handler's own step: to the
\* second in a message, to the tick in a health response.
C12_ClockRead ==
    \A i \in ReqIds :
        /\ Returns(i, "handleMessage") =>
              LET d == JSONDecode(req'[i].w.body)
              IN d.ok => ParseRFC3339(FieldValue(d.fields, "time"))
                            = (wall \div TicksPerSec) * TicksPerSec
        /\ Returns(i, "handleHealth") =>
              LET d == JSONDecode(req'[i].w.body)
              IN d.ok => ParseRFC3339(FieldValue(d.fields, "timestamp")) = wall

\* C12: the time field of a message response is a valid RFC 3339 rendering
\* of the clock value read while the request was handled, and the timestamp
\* field of a health response is a parseable RFC 3339 timestamp of the clock
\* value read while the request was handled.
C12_TimeFields == []C12_Parseable /\ [][C12_ClockRead]_vars

\* A message written whole whose time field reads one second.
C12_Witness ==
    \E i \in ReqIds :
        /\ HandledBy(i, "handleMessage")
        /\ ~req[i].w.short
        /\ BodyField(i, "time") = <<"T", "1", "Z">>
        /\ ParseRFC3339(BodyField(i, "time")) = TicksPerSec

\* ----------------------------------------------------------------- C13

\* The positions of the call named e among the calls made for slot i.
EventsAt(i, e) == {k \in 1..Len(req[i].ev) : req[i].ev[k] = e}

\* Where the closure of slot i stands, what it has done so far and in which
\* order: the clock read first, the completion line last and only once the
\* handler is back, with method, path and a duration that has no sign.
C13_Order ==
    \A i \in ReqIds :
        req[i].h.kind = "loggingMiddleware" =>
            /\ req[i].pc = "dispatched" => req[i].ev = <<>>
            /\ req[i].pc = "started" => req[i].ev = <<"time.Now">>
            /\ req[i].pc \in {"dispatched", "started"} => req[i].calls = <<>>
            /\ req[i].pc \in {"dispatched", "started", "returned"} =>
                  /\ Completions(i) = {}
                  /\ EventsAt(i, "time.Since") = {}
            /\ Returned(i) =>
                  /\ EventsAt(i, "time.Now") = {1}
                  /\ Len(req[i].calls) = 1
            /\ req[i].pc = "done" =>
                  LET n == Len(req[i].ev)
                      last == req[i].log[Len(req[i].log)]
                  IN /\ EventsAt(i, "time.Since") = {n - 1}
                     /\ req[i].ev[n] = "log.Printf"
                     /\ SubSeq(req[i].ev, 2, 1 + Len(req[i].w.ops)) = req[i].w.ops
                     /\ Completions(i) = {Len(req[i].log)}
                     /\ last.fmt = "%s %s completed in %v"
                     /\ last.args[1] = <<req[i].r.method>>
                     /\ last.args[2] = req[i].r.path
                     /\ AllDigits(last.args[3])

\* The closure moves one statement at a time, the handler's whole run being
\* one of them, and the duration logged is the monotonic time gone by since
\* the start it recorded.
C13_Steps ==
    \A i \in ReqIds :
        req[i].h.kind = "loggingMiddleware" =>
            /\ (Busy(i) /\ req'[i].pc # req[i].pc) =>
                  <<req[i].pc, req'[i].pc>> \in
                      {<<"dispatched", "started">>, <<"started", "returned">>,
                       <<"returned", "done">>}
            /\ (req[i].pc = "dispatched" /\ req'[i].pc = "started") =>
                  req'[i].start = mono
            /\ (req[i].pc = "started" /\ req'[i].pc = "returned") =>
                  req'[i].start = req[i].start
            /\ (req[i].pc = "returned" /\ req'[i].pc = "done") =>
                  /\ mono >= req[i].start
                  /\ req'[i].log[Len(req'[i].log)].args[3]
                        = FormatDuration(mono - req[i].start)

\* C13: in every invocation of a wrapped handler the start time is recorded,
\* then the handler runs to completion, then the elapsed time is computed and
\* exactly one completion line with method, path and duration is logged; the
\* line never comes before the handler's return and the duration is never
\* negative.
C13_MiddlewareOrder == []C13_Order /\ [][C13_Steps]_vars

\* A request that took time: its completion line reports more than nothing.
C13_Witness ==
    \E i \in ReqIds :
        /\ req[i].pc = "done"
        /\ req[i].h.kind = "loggingMiddleware"
        /\ Cardinality(Completions(i)) = 1
        /\ req[i].log[Len(req[i].log)].args[3] = Itoa(MaxMono)
        /\ req[i].ev[1] = "time.Now"

\* ----------------------------------------------------------------- C14

\* The lines logged for slot i by anything but the middleware.
HandlerLines(i) ==
    {k \in 1..Len(req[i].log) : req[i].log[k].by # "loggingMiddleware"}

\* C14 as stated: the handlers make no logging calls, so every line logged
\* while a request is handled comes from the logging middleware.
C14_MiddlewareOwnsAllLogging ==
    \A i \in ReqIds : HandlerLines(i) = {}

\* C14, amended: the root handler logs one line of its own for every request
\* it handles; the health and message handlers log one line when encoding
\* their response fails and none otherwise; every other line logged while a
\* request is handled comes from the logging middleware.
C14_WhoLogs ==
    \A i \in ReqIds :
        /\ \A k \in HandlerLines(i) :
              /\ Returned(i)
              /\ req[i].log[k].by = req[i].h.next
              /\ req[i].h.next \in JSONHandlers => req[i].w.short
        /\ HandledBy(i, "handleRoot") => Cardinality(HandlerLines(i)) = 1
        /\ (Returned(i) /\ req[i].h.next \in JSONHandlers) =>
              Cardinality(HandlerLines(i)) = (IF req[i].w.short THEN 1 ELSE 0)
        /\ req[i].h = NoHandler => req[i].log = <<>>
        /\ Cardinality(Completions(i)) + Cardinality(HandlerLines(i)) = Len(req[i].log)

\* A root request, done: its handler's line, then the middleware's.
C14_Witness ==
    \E i \in ReqIds :
        /\ req[i].pc = "done"
        /\ HandledBy(i, "handleRoot")
        /\ Len(req[i].log) = 2
        /\ req[i].log[1].by = "handleRoot"
        /\ req[i].log[2].by = "loggingMiddleware"

\* ----------------------------------------------------------------- C15

\* Every call named e made for slot i comes before the k-th call.
AllBefore(i, e, k) == EventsAt(i, e) # {} /\ \A j \in EventsAt(i, e) : j < k

\* C15: each invocation of the root handler logs exactly one line, naming
\* the request path and the remote address, after status and body have been
\* written; behind the middleware that line precedes the completion line of
\* the same request.
C15_RootLogLine ==
    \A i \in ReqIds :
        HandledBy(i, "handleRoot") =>
            LET first == CHOOSE k \in EventsAt(i, "log.Printf") :
                            \A j \in EventsAt(i, "log.Printf") : k <= j
            IN /\ HandlerLines(i) = {1}
               /\ req[i].log[1].by = "handleRoot"
               /\ req[i].log[1].args = <<req[i].r.path, <<req[i].r.remote>>>>
               /\ EventsAt(i, "log.Printf") # {}
               /\ AllBefore(i, "WriteHeader", first)
               /\ AllBefore(i, "Write", first)
               /\ req[i].pc = "returned" =>
                     /\ Completions(i) = {}
                     /\ EventsAt(i, "log.Printf") = {first}
               /\ req[i].pc = "done" =>
                     /\ Completions(i) = {2}
                     /\ EventsAt(i, "log.Printf") = {first, Len(req[i].ev)}
                     /\ AllBefore(i, "time.Since", Len(req[i].ev))
                     /\ first < Len(req[i].ev) - 1

\* A request to a path only the catch-all takes, done, on a connection that
\* took nothing of the body: the write was attempted and both lines are there.
C15_Witness ==
    \E i \in ReqIds :
        /\ req[i].pc = "done"
        /\ HandledBy(i, "handleRoot")
        /\ req[i].r.path = <<"/", "nope">>
        /\ req[i].w.short
        /\ req[i].log[1].args[1] = <<"/", "nope">>
        /\ req[i].log[2].by = "loggingMiddleware"

\* ----------------------------------------------------------------- C16

\* A GET for the same path with no body and no header of its own.
PlainGet(r) == Request("GET", r.path, ShapeOf("GET"))

\* What the handler writes is what it writes for the plain GET, with status
\* 200 and the JSON content type.
C16_AnyRequestShape ==
    \A i \in ReqIds : \A name \in JSONHandlers :
        Returns(i, name) =>
            /\ req'[i].w = CallHandler(name, req[i].w, PlainGet(req[i].r), Now).w
            /\ req'[i].w.status = 200
            /\ HeaderGet(req'[i].w.sent, "Content-Type") = <<"application/json">>

\* C16: the health and message handlers validate nothing: whatever the
\* method, body and headers of the request, the response is the status 200
\* JSON response a plain GET gets, and no request is answered with an error.
C16_NoValidation == [][C16_AnyRequestShape]_vars

\* A POST with a body and a content type of its own, answered by the
\* message handler with the whole JSON body.
C16_Witness ==
    \E i \in ReqIds :
        /\ HandledBy(i, "handleMessage")
        /\ req[i].r.method = "POST"
        /\ req[i].r.body # <<>>
        /\ req[i].r.header # {}
        /\ req[i].w.status = 200
        /\ ~req[i].w.short
        /\ BodyField(i, "message") = <<MessageText>>

\* ----------------------------------------------------------------- C17

\* Once main has built the server its timeouts are 15, 15 and 60 seconds,
\* and nothing listens or is served before it is built.
C17_Timeouts ==
    /\ server # NoServer =>
          /\ server.ReadTimeout = 15
          /\ server.WriteTimeout = 15
          /\ server.IdleTimeout = 60
    /\ (binds > 0 \/ \E i \in ReqIds : req[i].pc # "idle") => server # NoServer

\* No step changes the server once it is built, whatever the environment and
\* whatever request it is a step of.
C17_Fixed == server # NoServer => server' = server

\* C17: in every reachable state of the server its read timeout is 15
\* seconds, its write timeout 15 seconds and its idle timeout 60 seconds; no
\* environment variable and no request changes them, and the one server
\* value serves every connection.
C17_TimeoutsFixed == []C17_Timeouts /\ [][C17_Fixed]_vars

\* PORT is set, the server is up and has answered a request.
C17_Witness ==
    /\ env.set
    /\ env.val # <<>>
    /\ mainPc = "serving"
    /\ server.IdleTimeout = 60
    /\ \E i \in ReqIds : req[i].pc = "done" /\ req[i].w.status = 200

\* ----------------------------------------------------------------- C18

\* The positions of the call named op among the calls on the writer of slot i.
OpsAt(i, op) == {k \in 1..Len(req[i].w.ops) : req[i].w.ops[k] = op}

\* C18: each of the three handlers produces its response in one order: the
\* Content-Type header is set before the status is committed, the status is
\* written exactly once per request and is 200, body bytes are written only
\* after the status, and no header is set after the status is committed.
C18_ResponseOrder ==
    \A i \in ReqIds :
        \A name \in {"handleRoot", "handleHealth", "handleMessage"} :
            HandledBy(i, name) =>
                /\ Cardinality(OpsAt(i, "WriteHeader")) = 1
                /\ req[i].w.status = 200
                /\ \A h \in OpsAt(i, "Header.Set") : \A s \in OpsAt(i, "WriteHeader") : h < s
                /\ \A b \in OpsAt(i, "Write") : \A s \in OpsAt(i, "WriteHeader") : s < b
                /\ OpsAt(i, "Header.Set") # {}
                /\ OpsAt(i, "Write") # {}
                /\ req[i].w.sent = req[i].w.header
                /\ ContentType(i) = (IF name = "handleRoot"
                                     THEN <<"text/html; charset=utf-8">>
                                     ELSE <<"application/json">>)
                /\ req[i].w.ops = <<"Header.Set", "WriteHeader", "Write">>

\* The health handler has answered in that order on a connection that broke
\* after part of the body.
C18_Witness ==
    \E i \in ReqIds :
        /\ HandledBy(i, "handleHealth")
        /\ req[i].w.ops = <<"Header.Set", "WriteHeader", "Write">>
        /\ req[i].w.status = 200
        /\ req[i].w.short
        /\ req[i].w.body # <<>>

\* ----------------------------------------------------------------- C19

\* The request of slot i has a canonical path that is neither "/health" nor
\* "/api/message".
CatchAllCase(i) ==
    /\ req[i].pc # "idle"
    /\ CleanPath(req[i].r.path) = req[i].r.path
    /\ req[i].r.path \notin {PHealth, PMessage}

\* C19 as stated: every request with a canonical path other than "/health"
\* and "/api/message" is dispatched to the wrapped root handler and receives
\* status 200 with the HTML page.
C19_CatchAllAlwaysWholePage ==
    \A i \in ReqIds :
        CatchAllCase(i) =>
            /\ req[i].h = LoggingMiddleware("handleRoot")
            /\ Returned(i) => /\ HandledBy(i, "handleRoot")
                              /\ req[i].w.status = 200
                              /\ req[i].w.body = Html

\* C19, amended: the route registered for "/" is a catch-all of the
\* multiplexer: every request with a canonical path other than exactly
\* "/health" and "/api/message" is dispatched to the middleware-wrapped root
\* handler and receives status 200 with the HTML content type, and with the
\* whole HTML page when the write of the body succeeds.
C19_CatchAll ==
    \A i \in ReqIds :
        CatchAllCase(i) =>
            /\ req[i].h = LoggingMiddleware("handleRoot")
            /\ req[i].pc \in {"dispatched", "started", "returned", "done"}
            /\ Returned(i) =>
                  /\ HandledBy(i, "handleRoot")
                  /\ Len(req[i].calls) = 1
                  /\ req[i].w.status = 200
                  /\ ContentType(i) = <<"text/html; charset=utf-8">>
                  /\ ~req[i].w.short => req[i].w.body = Html
                  /\ IsPrefix(req[i].w.body, Html)

\* "/health/" answered by the root handler with the whole page.
C19_Witness ==
    \E i \in ReqIds :
        /\ req[i].pc = "done"
        /\ req[i].r.path = <<"/", "health", "/">>
        /\ HandledBy(i, "handleRoot")
        /\ req[i].w.status = 200
        /\ req[i].w.body = Html

\* ----------------------------------------------------------------- C20

\* The patterns registered so far.
Patterns == {e.pattern : e \in mux}

\* What has happened so far tells what happened before it: routes only with
\* the port resolved, log lines only with the three routes, listening only
\* after the two lines, and a request only once the server has listened.
C20_Order ==
    /\ mux # {} => port # <<>>
    /\ server # NoServer => Patterns = RoutedPaths
    /\ log # <<>> => /\ Patterns = RoutedPaths
                     /\ Cardinality(mux) = 3
                     /\ log[1].fmt = "Starting server on port %s"
    /\ binds > 0 => /\ Len(log) >= 2
                    /\ log[1].fmt = "Starting server on port %s"
                    /\ log[2].fmt = "Access the application at http://localhost:%s"
                    /\ log[1].args = <<port>>
    /\ \A i \in ReqIds : req[i].pc # "idle" => /\ Cardinality(mux) = 3
                                               /\ binds > 0

\* The route table grows one route at a time and is left alone from the
\* moment the server listens; the port, once resolved, stays.
C20_Steps ==
    /\ binds > 0 => mux' = mux
    /\ log # <<>> => mux' = mux
    /\ mux' # mux => /\ mux \subseteq mux'
                     /\ Cardinality(mux') = Cardinality(mux) + 1
                     /\ port' = port
                     /\ log' = <<>>
    /\ port # <<>> => port' = port

\* C20: start-up is strictly ordered: the port is resolved, then the three
\* routes are registered, then the two start-up lines are logged, and only
\* then does the server listen; no request is dispatched with fewer than
\* three routes registered, and the route table is never modified once the
\* server is listening.
C20_StartupOrder == []C20_Order /\ [][C20_Steps]_vars

\* The server is up after a start in that order and the route registered
\* last has answered a request.
C20_Witness ==
    /\ mainPc = "serving"
    /\ binds = 1
    /\ Cardinality(mux) = 3
    /\ Len(log) = 2
    /\ \E i \in ReqIds : req[i].pc = "done" /\ HandledBy(i, "handleMessage")

\* ----------------------------------------------------------------- C21

\* The value the handler wrapped in slot i panics with, "" when it returns.
PanicOf(i) ==
    CASE req[i].h.next = "panicHandler" -> "boom"
      [] req[i].h.next = "latePanicHandler" -> "late"
      [] OTHER -> ""

\* Once a wrapped handler that panics has been called, the closure is over
\* with that panic: its caller has the very value, no elapsed time was taken
\* and no completion line logged, and the response is as the handler left it.
C21_NoRecover ==
    \A i \in ReqIds :
        (req[i].calls # <<>> /\ PanicOf(i) # "") =>
            /\ req[i].pc = "panicked"
            /\ req[i].panic = PanicOf(i)
            /\ Completions(i) = {}
            /\ req[i].log = <<>>
            /\ EventsAt(i, "time.Since") = {}
            /\ req[i].ev[Len(req[i].ev)] = "panic"
            /\ req[i].w = CallHandler(req[i].h.next, NewSink(-1), req[i].r, Now).w
            /\ err \in {"", PanicOf(i)}

\* After the panic nothing of the closure runs, and what ends the test is
\* the panic the handler raised.
C21_NothingAfter ==
    \A i \in ReqIds :
        req[i].pc = "panicked" =>
            /\ req'[i] = req[i]
            /\ err' # err => err' = PanicOf(i)

\* C21: the logging middleware does not recover from a failure of the
\* wrapped handler: when the wrapped handler panics instead of returning,
\* the panic propagates to the caller of the wrapped form unchanged and no
\* completion line is logged for that request.
C21_PanicPropagates == []C21_NoRecover /\ [][C21_NothingAfter]_vars

\* A handler that panicked after writing the status: the test has ended
\* with its panic and there is no completion line.
C21_Witness ==
    \E i \in ReqIds :
        /\ req[i].pc = "panicked"
        /\ req[i].h = LoggingMiddleware("latePanicHandler")
        /\ req[i].w.status = 200
        /\ req[i].log = <<>>
        /\ mainPc = "exited"
        /\ err = "late"

\* ----------------------------------------------------------------- C22

\* substr occurs in s as a contiguous substring: s is some string, then
\* substr, then some string.
Occurs(substr, s) == \E p \in Strings, q \in Strings : s = p \o substr \o q

\* C22: contains(s, substr) returns true exactly when substr occurs in s as
\* a contiguous substring, for all strings including the empty string, equal
\* strings and a substr longer than s; containsHelper never indexes s out of
\* range.
C22_ContainsCorrect ==
    /\ (search.pc \in {"returned", "panicked"} /\ search.fn = "contains") =>
          /\ search.pc = "returned"
          /\ search.result = Occurs(search.substr, search.s)
    /\ search.pc # "none" =>
          /\ search.pc # "panicked"
          /\ ~search.fault
          /\ ~containsHelper(search.s, search.substr).fault
          /\ ~contains(search.s, search.substr).fault
    /\ (search.pc = "returned" /\ search.fn = "containsHelper") =>
          search.result = Occurs(search.substr, search.s)

\* contains has found a string that starts in the middle of s and ends at
\* its end.
C22_Witness ==
    /\ search.pc = "returned"
    /\ search.fn = "contains"
    /\ search.s = <<"a", "a", "b">>
    /\ search.substr = <<"a", "b">>
    /\ search.result

====
